---- MODULE Spec2Model ----
(***************************************************************************)
(* gcloud_core.datastore: the resource-id codec (get_resource_id_from_key, *)
(* get_key_from_resource_id), get_entity_by_resource_id and the Client     *)
(* singleton.                                                              *)
(*                                                                         *)
(* A Python str or bytes value is the sequence of its character codes. A   *)
(* flat-path token is a record tagged "str" or "int".  An outcome of a     *)
(* call is a record whose exc field is "None" for a normal return and the  *)
(* exception class name otherwise.  The library calls (base64, bytes       *)
(* .decode, int, str.split, datastore Key) are modelled by what CPython 3  *)
(* and google-cloud-datastore do at the call sites named in the map.       *)
(***************************************************************************)
EXTENDS Integers, Sequences, FiniteSets, TLC

SEPARATOR == 30
INTPREFIX == 31

\* ---------------------------------------------------------------- bounds
\* longest flattened key path given to get_resource_id_from_key
MaxPathLen == 4
\* longest decoded text whose encodings are given to get_key_from_resource_id
MaxTextLen == 3

\* ---------------------------------------------------------------- values
StrTok(s) == [tag |-> "str", s |-> s, i |-> 0]
IntTok(n) == [tag |-> "int", s |-> <<>>, i |-> n]

\* a normal return and a raised exception; the unused fields are empty
Return(rid, args, key, found) ==
  [exc |-> "None", template |-> "", param |-> <<>>,
   rid |-> rid, args |-> args, key |-> key, found |-> found, client |-> FALSE]
Raise(exc, template, param, args) ==
  [exc |-> exc, template |-> template, param |-> param,
   rid |-> <<>>, args |-> args, key |-> <<>>, found |-> FALSE, client |-> FALSE]
NoCall == Return(<<>>, <<>>, <<>>, FALSE)

\* the exception classes and their bases (ValueError is the base of the
\* module's own exceptions, of binascii.Error and of the Unicode errors)
Bases(exc) ==
  IF exc \in {"InvalidKeyException", "InvalidIdException", "binascii.Error",
              "UnicodeDecodeError", "UnicodeEncodeError", "ValueError"}
  THEN {exc, "ValueError", "Exception"}
  ELSE {exc, "Exception"}

\* ------------------------------------------------------------ str and int
RECURSIVE Digits(_)
Digits(n) == IF n < 10 THEN <<48 + n>> ELSE Digits(n \div 10) \o <<48 + (n % 10)>>

\* str(n) of an int: decimal digits, "-" (45) before a negative number
PyStr(n) == IF n < 0 THEN <<45>> \o Digits(-n) ELSE Digits(n)

\* Python truth value of a token: "" and 0 are false
Truthy(tok) == IF tok.tag = "int" THEN tok.i # 0 ELSE tok.s # <<>>

IsSpace(c) == c \in {9, 10, 11, 12, 13, 32}
IsDigit(c) == c \in 48..57

RECURSIVE LStrip(_)
LStrip(s) == IF s # <<>> /\ IsSpace(s[1]) THEN LStrip(Tail(s)) ELSE s
RECURSIVE RStrip(_)
RStrip(s) ==
  IF s # <<>> /\ IsSpace(s[Len(s)]) THEN RStrip(SubSeq(s, 1, Len(s) - 1)) ELSE s

\* the digits of an int literal: digits, single "_" (95) only between digits
RECURSIVE DigitsValue(_, _, _)
DigitsValue(s, acc, after_digit) ==
  IF s = <<>> THEN [ok |-> after_digit, val |-> acc]
  ELSE IF IsDigit(s[1]) THEN DigitsValue(Tail(s), acc * 10 + (s[1] - 48), TRUE)
  ELSE IF s[1] = 95 /\ after_digit THEN DigitsValue(Tail(s), acc, FALSE)
  ELSE [ok |-> FALSE, val |-> 0]

\* int(s) for a str in base 10: surrounding whitespace, an optional sign
\* (43, 45), then the digits; ok is FALSE where int raises ValueError
ParseInt(s) ==
  LET t == RStrip(LStrip(s))
      neg == t # <<>> /\ t[1] = 45
      body == IF t # <<>> /\ t[1] \in {43, 45} THEN Tail(t) ELSE t
      d == DigitsValue(body, 0, FALSE)
  IN [ok |-> d.ok, val |-> IF neg THEN 0 - d.val ELSE d.val]

\* ------------------------------------------------------------------ base64
\* the standard alphabet: A-Z a-z 0-9 + /
B64Char(n) ==
  IF n < 26 THEN 65 + n
  ELSE IF n < 52 THEN 97 + (n - 26)
  ELSE IF n < 62 THEN 48 + (n - 52)
  ELSE IF n = 62 THEN 43 ELSE 47

\* the alphabet's inverse; 64 for a character outside it
B64Val(c) ==
  IF c \in 65..90 THEN c - 65
  ELSE IF c \in 97..122 THEN c - 97 + 26
  ELSE IF c \in 48..57 THEN c - 48 + 52
  ELSE IF c = 43 THEN 62
  ELSE IF c = 47 THEN 63 ELSE 64

RECURSIVE b64encode(_)
b64encode(b) ==
  IF Len(b) = 0 THEN <<>>
  ELSE IF Len(b) = 1
  THEN <<B64Char(b[1] \div 4), B64Char((b[1] % 4) * 16), 61, 61>>
  ELSE IF Len(b) = 2
  THEN <<B64Char(b[1] \div 4), B64Char((b[1] % 4) * 16 + (b[2] \div 16)),
         B64Char((b[2] % 16) * 4), 61>>
  ELSE <<B64Char(b[1] \div 4), B64Char((b[1] % 4) * 16 + (b[2] \div 16)),
         B64Char((b[2] % 16) * 4 + (b[3] \div 64)), B64Char(b[3] % 64)>>
       \o b64encode(SubSeq(b, 4, Len(b)))

\* base64.urlsafe_b64encode: "+" becomes "-" (45) and "/" becomes "_" (95)
urlsafe_b64encode(b) ==
  LET e == b64encode(b)
  IN [k \in 1..Len(e) |-> IF e[k] = 43 THEN 45 ELSE IF e[k] = 47 THEN 95 ELSE e[k]]

\* binascii.a2b_base64 without strict mode: a character outside the alphabet
\* is skipped, "=" (61) ends the data once it completes a quad, and data that
\* ends inside a quad is an error
RECURSIVE a2b_base64(_, _, _, _, _)
a2b_base64(data, quad_pos, leftchar, pads, out) ==
  IF data = <<>> THEN [ok |-> quad_pos = 0, bytes |-> out]
  ELSE LET c == data[1]
           v == B64Val(c)
           rest == Tail(data)
       IN IF c = 61
          THEN IF quad_pos >= 2 /\ quad_pos + pads + 1 >= 4
               THEN [ok |-> TRUE, bytes |-> out]
               ELSE a2b_base64(rest, quad_pos, leftchar,
                               IF quad_pos >= 2 THEN pads + 1 ELSE pads, out)
          ELSE IF v >= 64 THEN a2b_base64(rest, quad_pos, leftchar, pads, out)
          ELSE IF quad_pos = 0 THEN a2b_base64(rest, 1, v, 0, out)
          ELSE IF quad_pos = 1
          THEN a2b_base64(rest, 2, v % 16, 0, Append(out, leftchar * 4 + (v \div 16)))
          ELSE IF quad_pos = 2
          THEN a2b_base64(rest, 3, v % 4, 0, Append(out, leftchar * 16 + (v \div 4)))
          ELSE a2b_base64(rest, 0, 0, 0, Append(out, leftchar * 64 + v))

\* base64.urlsafe_b64decode of a str: a non-ASCII str is a ValueError, "-"
\* and "_" are translated to "+" and "/", and a2b_base64's error is
\* binascii.Error
urlsafe_b64decode(s) ==
  IF \E k \in 1..Len(s) : s[k] > 127 THEN [exc |-> "ValueError", bytes |-> <<>>]
  ELSE LET t == [k \in 1..Len(s) |->
                   IF s[k] = 45 THEN 43 ELSE IF s[k] = 95 THEN 47 ELSE s[k]]
           r == a2b_base64(t, 0, 0, 0, <<>>)
       IN IF r.ok THEN [exc |-> "None", bytes |-> r.bytes]
          ELSE [exc |-> "binascii.Error", bytes |-> <<>>]

\* ------------------------------------------------------------------- UTF-8
IsCont(b, k) == k <= Len(b) /\ b[k] \in 128..191

\* bytes.decode(): the code points of well-formed UTF-8; ok is FALSE where
\* it raises UnicodeDecodeError
RECURSIVE utf8_decode(_, _)
utf8_decode(b, out) ==
  IF b = <<>> THEN [ok |-> TRUE, text |-> out]
  ELSE LET c == b[1] IN
    IF c < 128 THEN utf8_decode(Tail(b), Append(out, c))
    ELSE IF c \in 194..223 /\ IsCont(b, 2)
    THEN utf8_decode(SubSeq(b, 3, Len(b)),
                     Append(out, (c - 192) * 64 + (b[2] - 128)))
    ELSE IF c \in 224..239 /\ IsCont(b, 2) /\ IsCont(b, 3)
            /\ (c = 224 => b[2] >= 160) /\ (c = 237 => b[2] <= 159)
    THEN utf8_decode(SubSeq(b, 4, Len(b)),
                     Append(out, (c - 224) * 4096 + (b[2] - 128) * 64 + (b[3] - 128)))
    ELSE IF c \in 240..244 /\ IsCont(b, 2) /\ IsCont(b, 3) /\ IsCont(b, 4)
            /\ (c = 240 => b[2] >= 144) /\ (c = 244 => b[2] <= 143)
    THEN utf8_decode(SubSeq(b, 5, Len(b)),
                     Append(out, (c - 240) * 262144 + (b[2] - 128) * 4096
                                 + (b[3] - 128) * 64 + (b[4] - 128)))
    ELSE [ok |-> FALSE, text |-> <<>>]

\* str.split(sep) for a one-character separator
RECURSIVE Split(_, _, _)
Split(s, sep, cur) ==
  IF s = <<>> THEN <<cur>>
  ELSE IF s[1] = sep THEN <<cur>> \o Split(Tail(s), sep, <<>>)
  ELSE Split(Tail(s), sep, Append(cur, s[1]))

\* sep.join(strings)
RECURSIVE Join(_, _)
Join(strings, sep) ==
  IF strings = <<>> THEN <<>>
  ELSE IF Len(strings) = 1 THEN strings[1]
  ELSE strings[1] \o <<sep>> \o Join(Tail(strings), sep)

\* ------------------------------------------------- google.cloud.datastore
\* Client().key(*path_args): the path must not be empty, every kind (odd
\* position) must be a str, and an odd number of tokens is a partial key;
\* the key's flat_path is path_args
NewKey(path_args) ==
  IF path_args = <<>>
     \/ \E k \in 1..Len(path_args) : k % 2 = 1 /\ path_args[k].tag # "str"
  THEN [exc |-> "ValueError", flat_path |-> <<>>]
  ELSE [exc |-> "None", flat_path |-> path_args]

KeyKindOfRoot(flat_path) == flat_path[1].s

\* key.kind: the kind of the last path element
KeyKind(flat_path) ==
  flat_path[IF Len(flat_path) % 2 = 1 THEN Len(flat_path) ELSE Len(flat_path) - 1].s

\* Client().get(key): the entity stored under the key, or None
Lookup(stored, flat_path) == flat_path \in stored

\* ------------------------------------------------------------------ Client
\* Client.__init__: builds a datastore client only while Client.ds_client
\* is falsy (None is 0 here; the n-th client built is n)
NeedsClient(cur) == cur = 0
ClientInitUnguarded(cur, built) ==
  [ds_client |-> built + 1, constructed |-> built + 1]

ClientInit(cur, built) ==
  IF NeedsClient(cur)
  THEN [ds_client |-> built + 1, constructed |-> built + 1]
  ELSE [ds_client |-> cur, constructed |-> built]

\* ------------------------------------------------ get_resource_id_from_key
PyStrOf(tok) == IF tok.tag = "int" THEN PyStr(tok.i) ELSE tok.s

OddPathSingleOnly(path) == Len(path) = 1

\* len(path) & 1
OddPath(path) == Len(path) % 2 = 1

\* not (kind and key_or_id), kind already a str
PairRejected(kind, key_or_id) == ~(kind # <<>> /\ Truthy(key_or_id))

\* the identifier as written into the pair string
IdString(key_or_id) ==
  IF key_or_id.tag = "int" THEN <<INTPREFIX>> \o PyStr(key_or_id.i)
  ELSE key_or_id.s

\* the loop over zip(a, a): the pair strings, or the first rejected pair
RECURSIVE PairStrings(_, _)
PairStrings(path, pair_strings) ==
  IF Len(path) < 2 THEN [exc |-> "None", strings |-> pair_strings]
  ELSE LET kind == PyStrOf(path[1])
           key_or_id == path[2]
       IN IF PairRejected(kind, key_or_id)
          THEN [exc |-> "InvalidKeyException", strings |-> <<>>]
          ELSE PairStrings(SubSeq(path, 3, Len(path)),
                           Append(pair_strings,
                                  kind \o <<SEPARATOR>> \o IdString(key_or_id)))

\* encoded.replace(b'=', b'')
StripPadding(encoded) == SelectSeq(encoded, LAMBDA c : c # 61)

\* buff.encode('ascii'), urlsafe_b64encode, the padding removed, .decode()
EncodedBuff(buff) ==
  IF \E k \in 1..Len(buff) : buff[k] > 127
  THEN Raise("UnicodeEncodeError", "", <<>>, <<>>)
  ELSE Return(StripPadding(urlsafe_b64encode(buff)), <<>>, <<>>, FALSE)

\* after the loop: the pairs rejoined and encoded
EncodedPairs(r) ==
  IF r.exc # "None" THEN Raise(r.exc, "_pair_err", <<>>, <<>>)
  ELSE EncodedBuff(Join(r.strings, SEPARATOR))

get_resource_id_from_key(flat_path) ==
  IF OddPath(flat_path) THEN Raise("InvalidKeyException", "_pair_err", <<>>, <<>>)
  ELSE EncodedPairs(PairStrings(flat_path, <<>>))

\* ------------------------------------------------ get_key_from_resource_id
\* the padding put back on: "=" up to a multiple of four characters
Padded(resource_id) ==
  LET modulo == Len(resource_id) % 4
  IN IF modulo # 0 THEN resource_id \o [k \in 1..(4 - modulo) |-> 61]
     ELSE resource_id

\* the try block: only binascii.Error becomes InvalidIdException, any other
\* exception of the two decodes leaves the function as it is
TextOfBytes(u) ==
  IF ~u.ok THEN [exc |-> "UnicodeDecodeError", text |-> <<>>]
  ELSE [exc |-> "None", text |-> u.text]
TextOfBase64(d) ==
  IF d.exc # "None"
  THEN [exc |-> IF "binascii.Error" \in Bases(d.exc)
                THEN "InvalidIdException" ELSE d.exc,
        text |-> <<>>]
  ELSE TextOfBytes(utf8_decode(d.bytes, <<>>))
DecodedText(resource_id) == TextOfBase64(urlsafe_b64decode(Padded(resource_id)))

TaggedIdentifierOnly(bit, position) == position % 2 = 0 /\ bit[1] = INTPREFIX

\* bit[0] == INTPREFIX, for a bit that has a first character
Tagged(bit, position) == bit[1] = INTPREFIX

\* the loop over bits: bit[0] of an empty bit is an IndexError, int() of a
\* tagged bit that is no int literal a ValueError
RECURSIVE KeyPairs(_, _)
KeyPairs(bits, key_pairs) ==
  IF bits = <<>> THEN [exc |-> "None", key_pairs |-> key_pairs]
  ELSE LET bit == bits[1] IN
    IF bit = <<>> THEN [exc |-> "IndexError", key_pairs |-> <<>>]
    ELSE IF Tagged(bit, Len(key_pairs) + 1)
    THEN LET n == ParseInt(Tail(bit)) IN
         IF n.ok THEN KeyPairs(Tail(bits), Append(key_pairs, IntTok(n.val)))
         ELSE [exc |-> "ValueError", key_pairs |-> <<>>]
    ELSE KeyPairs(Tail(bits), Append(key_pairs, StrTok(bit)))

\* the outcome; client tells whether Client() was evaluated, args what was
\* handed to Client().key
\* return Client().key(*key_pairs)
BuiltKey(key_pairs, k) ==
  IF k.exc # "None"
  THEN [Raise(k.exc, "", <<>>, key_pairs) EXCEPT !.client = TRUE]
  ELSE [Return(<<>>, key_pairs, k.flat_path, FALSE) EXCEPT !.client = TRUE]

KeyOfPairs(p) ==
  IF p.exc # "None" THEN Raise(p.exc, "", <<>>, <<>>)
  ELSE BuiltKey(p.key_pairs, NewKey(p.key_pairs))

KeyOfText(d) ==
  IF d.exc = "InvalidIdException"
  THEN Raise(d.exc, "Could not base64 decode resource_id", <<>>, <<>>)
  ELSE IF d.exc # "None" THEN Raise(d.exc, "", <<>>, <<>>)
  ELSE KeyOfPairs(KeyPairs(Split(d.text, SEPARATOR, <<>>), <<>>))

get_key_from_resource_id(resource_id) == KeyOfText(DecodedText(resource_id))

\* ----------------------------------------------- get_entity_by_resource_id
CaughtWithoutIndexError == {"ValueError", "AttributeError", "TypeError"}

\* except (ValueError, AttributeError, IndexError, TypeError)
Caught == {"ValueError", "AttributeError", "IndexError", "TypeError"}

\* the resource id the unifying exception is formatted with
ReportedId(resource_id) == resource_id

\* key.kind == expected_kind
KindMatches(flat_path, expected_kind) == KeyKind(flat_path) = expected_kind

\* the try block: the key, the kind validated, the lookup; the entity
\* returned is named by its key, and None is found = FALSE
TryBody(k, expected_kind, stored) ==
  IF k.exc # "None" THEN k
  ELSE IF ~KindMatches(k.key, expected_kind)
  THEN [Raise("ValueError", "_kind_err", expected_kind, k.args)
          EXCEPT !.client = TRUE]
  ELSE [Return(<<>>, k.args, IF Lookup(stored, k.key) THEN k.key ELSE <<>>,
               Lookup(stored, k.key)) EXCEPT !.client = TRUE]

\* the except clause: a caught exception is raised again as
\* InvalidIdException(_invalid_id_err % resource_id)
Unified(body, resource_id) ==
  IF body.exc # "None" /\ Bases(body.exc) \cap Caught # {}
  THEN [Raise("InvalidIdException", "_invalid_id_err",
              ReportedId(resource_id), body.args)
          EXCEPT !.client = body.client]
  ELSE body

get_entity_by_resource_id(expected_kind, resource_id, stored) ==
  IF resource_id = <<>> THEN Raise("ValueError", "_id_type_err", resource_id, <<>>)
  ELSE Unified(TryBody(get_key_from_resource_id(resource_id), expected_kind, stored),
               resource_id)

\* ------------------------------------------------------------------ inputs
K == <<75>>
UserEntity == <<85, 115, 101, 114, 69, 110, 116, 105, 116, 121>>
does_not_exist ==
  <<100, 111, 101, 115, 95, 110, 111, 116, 95, 101, 120, 105, 115, 116>>

\* None, for a caller that holds no resource id
PyNone == <<-1>>

\* kinds and identifiers of the keys: "K" and "", the ints 0, 1, 12, -7, and
\* the names "a", "", INTPREFIX "1", "a" SEPARATOR "b" and a non-ASCII name
KeyKinds == {K, <<>>}
KeyIds == {IntTok(0), IntTok(1), IntTok(12), IntTok(-7), StrTok(<<97>>),
           StrTok(<<>>), StrTok(<<INTPREFIX, 49>>),
           StrTok(<<97, SEPARATOR, 98>>), StrTok(<<233>>)}

\* the keys of the tests
TestKeys == {<<StrTok(UserEntity), StrTok(does_not_exist)>>,
             <<StrTok(UserEntity), IntTok(1)>>,
             <<StrTok(UserEntity)>>,
             <<StrTok(UserEntity), IntTok(1), StrTok(<<67, 104, 105, 108, 100>>)>>,
             <<StrTok(UserEntity), IntTok(1), StrTok(K), IntTok(1)>>}

KeyPaths ==
  TestKeys \cup
  { p \in UNION {[1..n -> {StrTok(s) : s \in KeyKinds} \cup KeyIds] : n \in 1..MaxPathLen} :
      \A k \in 1..Len(p) : IF k % 2 = 1 THEN p[k].tag = "str" /\ p[k].s \in KeyKinds
                           ELSE p[k] \in KeyIds }

\* the resource ids of the tests, and one with characters outside the alphabet
TestIds == {
  <<86, 88, 78, 108, 99, 107, 86, 117, 100, 71, 108, 48, 101, 82, 53, 107,
    98, 50, 86, 122, 88, 50, 53, 118, 100, 70, 57, 108, 101, 71, 108, 122, 100, 65>>,
  <<86, 88, 78, 108, 99, 107, 86, 117, 100, 71, 108, 48, 101, 82, 52, 102, 77, 81>>,
  <<86, 88, 78, 108, 99, 107, 86, 117, 100, 71, 108, 48, 101, 82, 53, 107, 51>>,
  <<86, 109, 86, 117, 100, 87, 85, 101, 90, 50, 70, 116, 100, 88, 81>>,
  <<33, 33, 33, 33, 86, 88, 78, 108, 99, 107, 86, 117, 100, 71, 108, 48,
    101, 82, 52, 102, 77, 81>> }

\* the bytes of the decoded texts: SEPARATOR, INTPREFIX, "1", "K" and 0xC3
TextBytes == {SEPARATOR, INTPREFIX, 49, 75, 195}
Texts == UNION {[1..n -> TextBytes] : n \in 0..MaxTextLen}

\* a resource id as issued, and the same with "!" or a non-ASCII character
\* in front, or "A" or "=" behind
Variants(rid) == {rid, <<33>> \o rid, <<233>> \o rid, rid \o <<65>>, rid \o <<61>>}
ResourceIds ==
  TestIds \cup UNION {Variants(StripPadding(urlsafe_b64encode(t))) : t \in Texts}

ExpectedKinds == {K, UserEntity}
StoredKeys == {<<StrTok(K), IntTok(1)>>, <<StrTok(UserEntity), IntTok(9999)>>,
               <<StrTok(UserEntity), IntTok(1), StrTok(K), IntTok(1)>>}
Threads == {1, 2}

\* ------------------------------------------------------------------- state
VARIABLES
  ds_client,     \* Client.ds_client: 0 for None, n for the n-th client built
  constructed,   \* how many times datastore.Client() was called
  pc,            \* each thread's place in Client.__init__
  store,         \* the flat paths of the entities the datastore holds
  key_path,      \* flat_path of the key the caller holds, <<>> for none
  resource_id,   \* the resource id the caller holds, PyNone for none
  op,            \* the last call made
  expected_kind, \* its expected_kind argument, <<>> where it has none
  ret            \* its outcome

vars == <<ds_client, constructed, pc, store, key_path, resource_id, op,
          expected_kind, ret>>

Init ==
  /\ ds_client = 0
  /\ constructed = 0
  /\ pc = [t \in Threads |-> "idle"]
  /\ store \in {{}, StoredKeys}
  /\ \/ key_path \in KeyPaths /\ resource_id = PyNone
     \/ key_path = <<>> /\ resource_id \in ResourceIds
  /\ op = "none"
  /\ expected_kind = <<>>
  /\ ret = NoCall

\* Client.ds_client after a call: Client() ran in it or it did not
AfterCall(r, cur, built) ==
  IF r.client THEN ClientInit(cur, built)
  ELSE [ds_client |-> cur, constructed |-> built]

\* a thread enters Client(): the test of Client.ds_client
ClientCheck(t) ==
  /\ pc[t] = "idle"
  /\ pc' = [pc EXCEPT ![t] = IF NeedsClient(ds_client) THEN "construct" ELSE "idle"]
  /\ UNCHANGED <<ds_client, constructed, store, key_path, resource_id, op,
                 expected_kind, ret>>

\* the thread builds the datastore client and assigns Client.ds_client
ClientAssign(t) ==
  /\ pc[t] = "construct"
  /\ constructed' = constructed + 1
  /\ ds_client' = constructed + 1
  /\ pc' = [pc EXCEPT ![t] = "idle"]
  /\ UNCHANGED <<store, key_path, resource_id, op, expected_kind, ret>>

\* the caller encodes its key and keeps the resource id it gets
GetResourceIdFromKey ==
  /\ key_path # <<>>
  /\ ret' = get_resource_id_from_key(key_path)
  /\ op' = "get_resource_id_from_key"
  /\ expected_kind' = <<>>
  /\ resource_id' = IF ret'.exc = "None" THEN ret'.rid ELSE resource_id
  /\ UNCHANGED <<ds_client, constructed, pc, store, key_path>>

\* the caller decodes the resource id it holds
GetKeyFromResourceId ==
  /\ resource_id # PyNone
  /\ ret' = get_key_from_resource_id(resource_id)
  /\ op' = "get_key_from_resource_id"
  /\ expected_kind' = <<>>
  /\ ds_client' = AfterCall(ret', ds_client, constructed).ds_client
  /\ constructed' = AfterCall(ret', ds_client, constructed).constructed
  /\ UNCHANGED <<pc, store, key_path, resource_id>>

\* the caller resolves the resource id it holds
GetEntityByResourceId(kind) ==
  /\ resource_id # PyNone
  /\ ret' = get_entity_by_resource_id(kind, resource_id, store)
  /\ op' = "get_entity_by_resource_id"
  /\ expected_kind' = kind
  /\ ds_client' = AfterCall(ret', ds_client, constructed).ds_client
  /\ constructed' = AfterCall(ret', ds_client, constructed).constructed
  /\ UNCHANGED <<pc, store, key_path, resource_id>>

Next ==
  \/ \E t \in Threads : ClientCheck(t)
  \/ \E t \in Threads : ClientAssign(t)
  \/ GetResourceIdFromKey
  \/ GetKeyFromResourceId
  \/ \E kind \in ExpectedKinds : GetEntityByResourceId(kind)

Spec == Init /\ [][Next]_vars
\* ------------------------------------------------------------------ claims
Encoded == op = "get_resource_id_from_key"
Decoded == op = "get_key_from_resource_id"
Resolved == op = "get_entity_by_resource_id"

\* a well-formed KeyPath: pairs of a non-empty str kind and an identifier
\* that is an int or a non-empty str
WellFormedPath(p) ==
  /\ Len(p) > 0 /\ Len(p) % 2 = 0
  /\ \A k \in 1..Len(p) :
       IF k % 2 = 1 THEN p[k].tag = "str" /\ p[k].s # <<>>
       ELSE p[k].tag = "int" \/ p[k].s # <<>>

IsAscii(p) == \A k \in 1..Len(p) : \A j \in 1..Len(p[k].s) : p[k].s[j] < 128

\* C1: round trip. For a well-formed key path the encoding succeeds, and
\* decoding the resource id it gave yields the same tokens in the same
\* order, ints as ints and strs as strs.
C1_RoundTrip ==
  (key_path # <<>> /\ WellFormedPath(key_path)) =>
     /\ Encoded => ret.exc = "None"
     /\ Decoded => ret.exc = "None" /\ ret.key = key_path

\* the resource id the claim describes: the tokens joined with SEPARATOR,
\* an int as INTPREFIX and its decimal digits, base64url without padding
DescribedId(p) ==
  StripPadding(urlsafe_b64encode(Join(
    [k \in 1..Len(p) |-> IF p[k].tag = "int" THEN <<INTPREFIX>> \o PyStr(p[k].i)
                         ELSE p[k].s], SEPARATOR)))

\* C2: for every well-formed (ASCII) key path get_resource_id_from_key
\* returns the described encoding, and the two keys of the tests encode to
\* the resource ids the tests give.
C2_EncodingAsDescribed ==
  (Encoded /\ WellFormedPath(key_path) /\ IsAscii(key_path)) =>
     /\ ret.exc = "None"
     /\ ret.rid = DescribedId(key_path)
     /\ key_path = <<StrTok(UserEntity), StrTok(does_not_exist)>> =>
          ret.rid = <<86, 88, 78, 108, 99, 107, 86, 117, 100, 71, 108, 48,
                      101, 82, 53, 107, 98, 50, 86, 122, 88, 50, 53, 118,
                      100, 70, 57, 108, 101, 71, 108, 122, 100, 65>>
     /\ key_path = <<StrTok(UserEntity), IntTok(1)>> =>
          ret.rid = <<86, 88, 78, 108, 99, 107, 86, 117, 100, 71, 108, 48,
                      101, 82, 52, 102, 77, 81>>

\* C3: a key whose flattened path has an odd number of tokens is refused
\* with InvalidKeyException, and the caller gets no resource id.
C3_OddPathRejected ==
  (Encoded /\ Len(key_path) % 2 = 1) =>
     (ret.exc = "InvalidKeyException" /\ ret.rid = <<>> /\ resource_id = PyNone)
C3_Witness ==
  Encoded /\ Len(key_path) = 3 /\ ret.exc = "InvalidKeyException"

\* valid URL-safe base64 with its padding: a multiple of four characters of
\* A-Z a-z 0-9 - _, the last one or two of which may be "="
UrlSafeChar(c) == c \in (65..90) \cup (97..122) \cup (48..57) \cup {45, 95}
ValidUrlSafeBase64(s) ==
  /\ Len(s) % 4 = 0
  /\ \A k \in 1..Len(s) :
       \/ UrlSafeChar(s[k])
       \/ s[k] = 61 /\ k >= Len(s) - 1 /\ \A j \in k..Len(s) : s[j] = 61

\* C4: a resource id that is not valid URL-safe base64 once its padding is
\* restored makes get_key_from_resource_id fail with InvalidIdException:
\* it yields no key and fails with no other exception.
C4_InvalidBase64Rejected ==
  (Decoded /\ ~ValidUrlSafeBase64(Padded(resource_id))) =>
     ret.exc = "InvalidIdException"

\* C5: a failure of get_entity_by_resource_id on a non-empty resource id is
\* an InvalidIdException formatted with the resource id as the caller
\* passed it; no other exception leaves the call.
C5_FailuresUnified ==
  (Resolved /\ resource_id # <<>> /\ ret.exc # "None") =>
     /\ ret.exc = "InvalidIdException"
     /\ ret.template = "_invalid_id_err"
     /\ ret.param = resource_id
C5_Witness ==
  /\ Resolved /\ ret.exc = "InvalidIdException" /\ ret.param = resource_id
  /\ ret.args = <<StrTok(K), IntTok(1)>> /\ expected_kind = UserEntity

\* the key the held resource id decodes to, and the kind of its last pair
DecodedKey == get_key_from_resource_id(resource_id)
LeafKind(p) == p[IF Len(p) % 2 = 1 THEN Len(p) ELSE Len(p) - 1].s

\* C6: when the resource id decodes to a key whose leaf kind is the
\* expected kind, get_entity_by_resource_id raises nothing and returns what
\* the lookup of that key gives: the entity, or None for a missing record.
C6_ValidIdReturnsLookup ==
  (Resolved /\ DecodedKey.exc = "None" /\ LeafKind(DecodedKey.key) = expected_kind) =>
     /\ ret.exc = "None"
     /\ ret.found = (DecodedKey.key \in store)
     /\ ret.key = IF DecodedKey.key \in store THEN DecodedKey.key ELSE <<>>
C6_Witness ==
  /\ Resolved /\ ret.exc = "None" /\ ~ret.found /\ ret.key = <<>>
  /\ ret.args = <<StrTok(K), IntTok(1)>> /\ expected_kind = K

\* C7: over every interleaving of Client() constructions the datastore
\* client is built at most once.
C7_BuiltAtMostOnce == constructed <= 1

TokenOf(bit) ==
  IF bit # <<>> /\ bit[1] = INTPREFIX THEN IntTok(ParseInt(Tail(bit)).val)
  ELSE StrTok(bit)
BadToken(bit) ==
  bit = <<>> \/ (bit[1] = INTPREFIX /\ ~ParseInt(Tail(bit)).ok)
Bits(rid) == Split(DecodedText(rid).text, SEPARATOR, <<>>)

\* C9 as claimed: whatever the decoded text, the call does not raise in
\* the token loop and hands Client().key the token list, in order.
C9_NeverCrashes ==
  (Decoded /\ DecodedText(resource_id).exc = "None") =>
     /\ ret.client
     /\ ret.args = [k \in 1..Len(Bits(resource_id)) |-> TokenOf(Bits(resource_id)[k])]

\* C9 as amended: when every token is non-empty and every tagged token
\* continues with an int literal, Client().key is handed the token list, in
\* order, tagged tokens as ints whatever their position; otherwise the call
\* raises IndexError at the first empty token (an empty text is one) or
\* ValueError at the first tagged token that is no int literal, and
\* Client().key is handed nothing.
C9_TokensOrRaise ==
  (Decoded /\ DecodedText(resource_id).exc = "None") =>
     IF \E k \in 1..Len(Bits(resource_id)) : BadToken(Bits(resource_id)[k])
     THEN /\ ~ret.client /\ ret.args = <<>>
          /\ \E k \in 1..Len(Bits(resource_id)) :
               /\ BadToken(Bits(resource_id)[k])
               /\ \A j \in 1..(k - 1) : ~BadToken(Bits(resource_id)[j])
               /\ ret.exc = IF Bits(resource_id)[k] = <<>> THEN "IndexError"
                            ELSE "ValueError"
     ELSE /\ ret.client
          /\ ret.args = [k \in 1..Len(Bits(resource_id)) |->
                           TokenOf(Bits(resource_id)[k])]
C9_Witness ==
  /\ Decoded /\ ret.client /\ ret.exc = "ValueError"
  /\ ret.args = <<IntTok(1)>>

\* C10 as claimed: no codec call changes Client.ds_client or builds a
\* datastore client.
C10_CodecStateless ==
  [][(GetResourceIdFromKey \/ GetKeyFromResourceId) =>
       (ds_client' = ds_client /\ constructed' = constructed)]_vars

\* C10 as amended: get_resource_id_from_key changes no state of the
\* process; get_key_from_resource_id changes none when it raises before
\* Client().key or when Client.__init__ finds Client.ds_client set, and
\* when its token loop ends without an exception and Client.__init__ finds
\* Client.ds_client unset, it builds exactly one datastore client and
\* stores it in Client.ds_client.
C10_CodecBuildsClientOnce ==
  [][(GetResourceIdFromKey \/ GetKeyFromResourceId) =>
       IF GetKeyFromResourceId /\ ds_client = 0 /\ ret'.args # <<>>
       THEN constructed' = constructed + 1 /\ ds_client' = constructed'
       ELSE ds_client' = ds_client /\ constructed' = constructed]_vars
C10_Witness ==
  /\ Decoded /\ ret.exc = "None" /\ ds_client = 1 /\ constructed = 1
  /\ \A t \in Threads : pc[t] = "idle"
====
